---- MODULE Spec2Model ----
(***************************************************************************)
(* Page-fault resolution of src/userprog/exception.c (pintos, VM build).   *)
(*                                                                         *)
(* The handler page_fault() classifies a trap, rejects illegal accesses    *)
(* with system_exit(-1), demand-pages SPT entries through the file or swap *)
(* loader, grows the stack page by page, and hands everything that did not *)
(* succeed to kill().                                                      *)
(*                                                                         *)
(* Addresses are byte addresses.  The address space is scaled down: the    *)
(* user part has UserPages pages, followed by one kernel page, and the     *)
(* stack limit is StackPages pages instead of 8 MiB / 4 KiB = 2048 pages.  *)
(* Page size, the 32 byte margin and every comparison are the code's.      *)
(*                                                                         *)
(* Code of the repository that exception.c calls but that is not part of   *)
(* the sources at hand (vm/page.c, vm/frame.c, userprog/process.c,         *)
(* userprog/syscall.c) is modelled at its interface: each call may fail,   *)
(* and the caller's input `env` fixes which calls do.  malloc() is taken   *)
(* to succeed.                                                             *)
(***************************************************************************)
EXTENDS Integers, FiniteSets, Sequences, TLC

(* ------------------------------ bounds --------------------------------- *)
\* pages of the stack window: STACK_LIMIT / PGSIZE, scaled down from 2048
StackPages == 4
\* physical frames of the user pool
NFrames == 2
\* faults handled in one behaviour (caps page_fault_cnt)
MaxFaults == 2

(* ---------------------------- address space ---------------------------- *)
PGSIZE == 4096
NULL == 0
\* page 0: never mapped; page 1: code segment; page 2: data segment;
\* then the StackPages pages of the stack window, the last one on top.
UserPages == 3 + StackPages
PHYS_BASE == UserPages * PGSIZE
STACK_LIMIT == StackPages * PGSIZE
\* one kernel page above PHYS_BASE; pointers wrap at the end of it
AddrSpace == PHYS_BASE + PGSIZE
CodePage == PGSIZE
DataPage == 2 * PGSIZE
StackTopPage == PHYS_BASE - PGSIZE

UPages == {p * PGSIZE : p \in 0..(UserPages - 1)}
Frames == 1..NFrames

is_user_vaddr(vaddr) == vaddr < PHYS_BASE
is_kernel_vaddr(vaddr) == vaddr >= PHYS_BASE
pg_round_down(va) == va - (va % PGSIZE)
\* pointer arithmetic of the machine word
PtrSub(p, n) == (p - n + AddrSpace) % AddrSpace
PtrAdd(p, n) == (p + n) % AddrSpace

(* ------------------------------ error code ----------------------------- *)
PF_P == 1
PF_W == 2
PF_U == 4
SEL_UCSEG == 27
SEL_KCSEG == 8
BitAnd(code, bit) == (code \div bit) % 2
ErrNotPresent(error_code) == BitAnd(error_code, PF_P) = 0
ErrWrite(error_code) == BitAnd(error_code, PF_W) # 0
ErrUser(error_code) == BitAnd(error_code, PF_U) # 0

(* -------------------------------- state -------------------------------- *)
VARIABLES
  spt,             \* supplemental page table: upage -> struct page
  pagedir,         \* hardware page table of the process: upage -> mapping
  frames,          \* frame table: kpage -> struct frame
  page_fault_cnt,  \* static counter of page_fault()
  status,          \* "running", "exit(-1)", "thread_exit" or "panic"
  last,            \* the fault handled by the latest step, with its outcome
  thr,             \* per thread, the locals of page_fault()
  cpu              \* the fault address register and the interrupt state

vars == <<spt, pagedir, frames, page_fault_cnt, status, last, thr, cpu>>

NoPage ==
  [present |-> FALSE, writable |-> FALSE, loaded |-> FALSE,
   swaped |-> FALSE, swaped_set |-> FALSE, file |-> FALSE]
NoMap == [present |-> FALSE, kpage |-> NULL, writable |-> FALSE]
FreeFrame == [used |-> FALSE, alloc_page |-> NULL, zeroed |-> FALSE]

\* vm/page.c ptable_lookup(): the entry of the page that holds the address;
\* NoPage stands for the NULL it returns when the table has none
ptable_lookup(s, addr) ==
  IF pg_round_down(addr) \in DOMAIN s THEN s[pg_round_down(addr)] ELSE NoPage


(* --------------------- collaborators (interface only) ------------------ *)
\* vm/frame.c frame_alloc(): the first free frame of the user pool, or NULL
\* when the caller's environment lets the allocation fail or no frame is free
frame_alloc(fr, fails) ==
  IF fails \/ \A k \in Frames : fr[k].used
  THEN NULL
  ELSE CHOOSE k \in Frames : ~fr[k].used /\ \A j \in Frames : j < k => fr[j].used

\* userprog/process.c install_page(): refuses a page that is mapped already
install_page(pd, upage, fails) == ~fails /\ ~pd[upage].present

\* vm/page.c ptable_insert(): refuses a page that has an entry already
ptable_insert(s, upage, fails) == ~fails /\ ~s[upage].present

\* vm/page.c page_load_file() / page_load_swap(): on success the page is in a
\* frame, mapped with the entry's writable flag, and the entry is loaded
LoadPage(st, upage, ok, from_swap) ==
  LET k == frame_alloc(st.frames, ~ok)
  IN IF k = NULL
     THEN [st EXCEPT !.success = FALSE]
     ELSE [st EXCEPT
             !.frames[k] = [used |-> TRUE, alloc_page |-> upage, zeroed |-> FALSE],
             !.pagedir[upage] =
                [present |-> TRUE, kpage |-> k, writable |-> st.spt[upage].writable],
             !.spt[upage].loaded = TRUE,
             !.spt[upage].swaped = IF from_swap THEN FALSE ELSE @,
             !.spt[upage].swaped_set = TRUE,
             !.acquired = @ \cup {upage},
             !.success = TRUE]

\* both return their report in success; loads is the record of the calls made
page_load_swap(st, upage, ok) ==
  LET r == LoadPage(st, upage, ok, TRUE)
  IN [r EXCEPT !.loads = Append(@, [loader |-> "swap", ok |-> r.success])]
page_load_file(st, upage, ok) ==
  LET r == LoadPage(st, upage, ok, FALSE)
  IN [r EXCEPT !.loads = Append(@, [loader |-> "file", ok |-> r.success])]

(* ------------------------------ exception.c ---------------------------- *)
\* kill() without the kernel segment's case: the switch falls to its default
kill_NoPanic(cs) ==
  CASE cs = SEL_UCSEG -> "thread_exit"
    [] OTHER -> "thread_exit"

\* kill(): what becomes of the faulting context, by the frame's code segment
kill(cs) ==
  CASE cs = SEL_UCSEG -> "thread_exit"
    [] cs = SEL_KCSEG -> "panic"
    [] OTHER -> "thread_exit"

\* the helper with the kernel's first address taken for a user address
exit_if_user_access_in_kernel_Strict(fault_addr, user) ==
  fault_addr > PHYS_BASE /\ user

\* TRUE when the helper calls system_exit(-1)
exit_if_user_access_in_kernel(fault_addr, user) ==
  is_kernel_vaddr(fault_addr) /\ user

\* the esp of the trap frame after the helper
bring_esp_from_thread_struct(user, not_present, esp, thread_esp) ==
  IF ~user /\ not_present /\ esp <= PHYS_BASE - STACK_LIMIT
  THEN thread_esp
  ELSE esp

\* the helper with the presence test inverted
write_on_nonwritable_page_NotPresent(s, fault_addr, not_present, write, ub_writable) ==
  /\ is_user_vaddr(fault_addr) /\ not_present /\ write
  /\ LET page == ptable_lookup(s, fault_addr)
     IN ~(IF page.present THEN page.writable ELSE ub_writable)

\* TRUE when the helper calls system_exit(-1).  The helper reads
\* page->writable without testing page: with no entry the read is of a null
\* pointer and yields whatever the environment gives (ub_writable).
write_on_nonwritable_page(s, fault_addr, not_present, write, ub_writable) ==
  /\ is_user_vaddr(fault_addr) /\ ~not_present /\ write
  /\ LET page == ptable_lookup(s, fault_addr)
     IN ~(IF page.present THEN page.writable ELSE ub_writable)

\* the eligibility test with a strict margin
StackEligible_Strict(fault_addr, esp) ==
  fault_addr > PtrSub(esp, 32) /\ fault_addr >= PHYS_BASE - STACK_LIMIT

\* the eligibility test of stack growth (line 209)
StackEligible(fault_addr, esp) ==
  fault_addr >= PtrSub(esp, 32) /\ fault_addr >= PHYS_BASE - STACK_LIMIT

\* the entry stack growth builds (lines 225-229); swaped is left unset
s_page ==
  [present |-> TRUE, writable |-> TRUE, loaded |-> TRUE,
   swaped |-> FALSE, swaped_set |-> FALSE, file |-> FALSE]

\* the walk without the assignment of alloc_page (lines 230-231)
RECURSIVE StackGrow_NoBackLink(_, _, _)
StackGrow_NoBackLink(st, stack_page_addr, walk) ==
  IF ~(stack_page_addr < PHYS_BASE - PGSIZE)
  THEN st
  ELSE IF ptable_lookup(st.spt, stack_page_addr).present
  THEN StackGrow_NoBackLink([st EXCEPT !.skipped = @ \cup {stack_page_addr}],
                 stack_page_addr + PGSIZE, walk)
  ELSE
    LET tmp_kpage == frame_alloc(st.frames, walk[stack_page_addr] = "frame")
    IN IF tmp_kpage = NULL
       THEN StackGrow_NoBackLink([st EXCEPT !.failed = @ \cup {stack_page_addr}],
                      stack_page_addr + PGSIZE, walk)
       ELSE
         LET st1 == [st EXCEPT !.frames[tmp_kpage].used = TRUE,
                               !.frames[tmp_kpage].zeroed = TRUE,
                               !.acquired = @ \cup {stack_page_addr}]
             installed == install_page(st1.pagedir, stack_page_addr,
                                       walk[stack_page_addr] = "install")
         IN IF ~installed
            THEN StackGrow_NoBackLink([st1 EXCEPT !.success = FALSE,
                                       !.failed = @ \cup {stack_page_addr}],
                           stack_page_addr + PGSIZE, walk)
            ELSE
              LET st2 == [st1 EXCEPT
                            !.pagedir[stack_page_addr] =
                               [present |-> TRUE, kpage |-> tmp_kpage, writable |-> TRUE]]
                  inserted == ptable_insert(st2.spt, stack_page_addr,
                                            walk[stack_page_addr] = "insert")
              IN IF inserted
                 THEN StackGrow_NoBackLink([st2 EXCEPT !.spt[stack_page_addr] = s_page,
                                            !.inserted = @ \cup {stack_page_addr},
                                            !.success = TRUE],
                                stack_page_addr + PGSIZE, walk)
                 ELSE StackGrow_NoBackLink([st2 EXCEPT !.success = FALSE,
                                            !.failed = @ \cup {stack_page_addr}],
                                stack_page_addr + PGSIZE, walk)

\* one iteration of the while loop of page_fault() at stack_page_addr, and
\* the rest of the loop; walk[upage] names the call that fails at upage
RECURSIVE StackGrow(_, _, _)
StackGrow(st, stack_page_addr, walk) ==
  IF ~(stack_page_addr < PHYS_BASE - PGSIZE)
  THEN st
  ELSE IF ptable_lookup(st.spt, stack_page_addr).present
  THEN StackGrow([st EXCEPT !.skipped = @ \cup {stack_page_addr}],
                 stack_page_addr + PGSIZE, walk)
  ELSE
    LET tmp_kpage == frame_alloc(st.frames, walk[stack_page_addr] = "frame")
    IN IF tmp_kpage = NULL
       THEN StackGrow([st EXCEPT !.failed = @ \cup {stack_page_addr}],
                      stack_page_addr + PGSIZE, walk)
       ELSE
         LET st1 == [st EXCEPT !.frames[tmp_kpage].used = TRUE,
                               !.frames[tmp_kpage].zeroed = TRUE,
                               !.acquired = @ \cup {stack_page_addr}]
             installed == install_page(st1.pagedir, stack_page_addr,
                                       walk[stack_page_addr] = "install")
         IN IF ~installed
            THEN StackGrow([st1 EXCEPT !.success = FALSE,
                                       !.failed = @ \cup {stack_page_addr}],
                           stack_page_addr + PGSIZE, walk)
            ELSE
              LET st2 == [st1 EXCEPT
                            !.pagedir[stack_page_addr] =
                               [present |-> TRUE, kpage |-> tmp_kpage, writable |-> TRUE],
                            !.frames[tmp_kpage].alloc_page = stack_page_addr]
                  inserted == ptable_insert(st2.spt, stack_page_addr,
                                            walk[stack_page_addr] = "insert")
              IN IF inserted
                 THEN StackGrow([st2 EXCEPT !.spt[stack_page_addr] = s_page,
                                            !.inserted = @ \cup {stack_page_addr},
                                            !.success = TRUE],
                                stack_page_addr + PGSIZE, walk)
                 ELSE StackGrow([st2 EXCEPT !.success = FALSE,
                                            !.failed = @ \cup {stack_page_addr}],
                                stack_page_addr + PGSIZE, walk)

\* the handler's working state at entry: success = false (line 146)
Entry(s, pd, fr) ==
  [spt |-> s, pagedir |-> pd, frames |-> fr, success |-> FALSE,
   path |-> "none", loads |-> <<>>,
   acquired |-> {}, inserted |-> {}, failed |-> {}, skipped |-> {}]

\* the dispatch with a loaded entry taken for a resolved fault
Dispatch_ResidentResolves(st, fault_addr, esp, env) ==
  LET page == ptable_lookup(st.spt, fault_addr)
      upage == pg_round_down(fault_addr)
  IN IF page.present
     THEN IF ~page.loaded
          THEN IF (IF page.swaped_set THEN page.swaped ELSE env.ub_swaped)
               THEN page_load_swap([st EXCEPT !.path = "load"], upage, env.load_ok)
               ELSE page_load_file([st EXCEPT !.path = "load"], upage, env.load_ok)
          ELSE [st EXCEPT !.path = "resident", !.success = TRUE]
     ELSE IF StackEligible(fault_addr, esp)
          THEN StackGrow([st EXCEPT !.path = "grow"], upage, env.walk)
          ELSE [st EXCEPT !.path = "ineligible"]

\* the dispatch with the file loader's report dropped
Dispatch_FileReportDropped(st, fault_addr, esp, env) ==
  LET page == ptable_lookup(st.spt, fault_addr)
      upage == pg_round_down(fault_addr)
  IN IF page.present
     THEN IF ~page.loaded
          THEN IF (IF page.swaped_set THEN page.swaped ELSE env.ub_swaped)
               THEN page_load_swap([st EXCEPT !.path = "load"], upage, env.load_ok)
               ELSE [page_load_file([st EXCEPT !.path = "load"], upage, env.load_ok)
                       EXCEPT !.success = FALSE]
          ELSE [st EXCEPT !.path = "resident"]
     ELSE IF StackEligible(fault_addr, esp)
          THEN StackGrow([st EXCEPT !.path = "grow"], upage, env.walk)
          ELSE [st EXCEPT !.path = "ineligible"]

\* the dispatch without the test of loaded (line 195): a loaded entry is
\* loaded again
Dispatch_ReloadsResident(st, fault_addr, esp, env) ==
  LET page == ptable_lookup(st.spt, fault_addr)
      upage == pg_round_down(fault_addr)
  IN IF page.present
     THEN IF (IF page.swaped_set THEN page.swaped ELSE env.ub_swaped)
          THEN page_load_swap([st EXCEPT !.path = "load"], upage, env.load_ok)
          ELSE page_load_file([st EXCEPT !.path = "load"], upage, env.load_ok)
     ELSE IF StackEligible(fault_addr, esp)
          THEN StackGrow([st EXCEPT !.path = "grow"], upage, env.walk)
          ELSE [st EXCEPT !.path = "ineligible"]

\* the dispatch with a failed load tried a second time
Dispatch_LoadRetried(st, fault_addr, esp, env) ==
  LET page == ptable_lookup(st.spt, fault_addr)
      upage == pg_round_down(fault_addr)
      from_swap == IF page.swaped_set THEN page.swaped ELSE env.ub_swaped
      load(x) == IF from_swap THEN page_load_swap(x, upage, env.load_ok)
                              ELSE page_load_file(x, upage, env.load_ok)
  IN IF page.present
     THEN IF ~page.loaded
          THEN IF load([st EXCEPT !.path = "load"]).success
               THEN load([st EXCEPT !.path = "load"])
               ELSE load(load([st EXCEPT !.path = "load"]))
          ELSE [st EXCEPT !.path = "resident"]
     ELSE IF StackEligible(fault_addr, esp)
          THEN StackGrow([st EXCEPT !.path = "grow"], upage, env.walk)
          ELSE [st EXCEPT !.path = "ineligible"]

\* the dispatch with the walk run before the eligibility test
Dispatch_GrowsBeforeTest(st, fault_addr, esp, env) ==
  LET page == ptable_lookup(st.spt, fault_addr)
      upage == pg_round_down(fault_addr)
  IN IF page.present
     THEN IF ~page.loaded
          THEN IF (IF page.swaped_set THEN page.swaped ELSE env.ub_swaped)
               THEN page_load_swap([st EXCEPT !.path = "load"], upage, env.load_ok)
               ELSE page_load_file([st EXCEPT !.path = "load"], upage, env.load_ok)
          ELSE [st EXCEPT !.path = "resident"]
     ELSE IF StackEligible(fault_addr, esp)
          THEN StackGrow([st EXCEPT !.path = "grow"], upage, env.walk)
          ELSE [StackGrow(st, upage, env.walk) EXCEPT !.path = "ineligible"]

\* lines 191-246: the dispatch on a user address whose page is not present.
\* path "ineligible" is the call of system_exit(-1) at line 243.
Dispatch(st, fault_addr, esp, env) ==
  LET page == ptable_lookup(st.spt, fault_addr)
      upage == pg_round_down(fault_addr)
  IN IF page.present
     THEN IF ~page.loaded
          THEN IF (IF page.swaped_set THEN page.swaped ELSE env.ub_swaped)
               THEN page_load_swap([st EXCEPT !.path = "load"], upage, env.load_ok)
               ELSE page_load_file([st EXCEPT !.path = "load"], upage, env.load_ok)
          ELSE [st EXCEPT !.path = "resident"]
     ELSE IF StackEligible(fault_addr, esp)
          THEN StackGrow([st EXCEPT !.path = "grow"], upage, env.walk)
          ELSE [st EXCEPT !.path = "ineligible"]

\* page_fault(): the working state when the handler is left, with the outcome:
\* "Resolved" (the handler returns and the instruction is resumed),
\* "exit(-1)" (system_exit), "thread_exit" or "panic" (kill)
page_fault(s, pd, fr, f, fault_addr, thread_esp, env) ==
  LET not_present == ErrNotPresent(f.error_code)
      write == ErrWrite(f.error_code)
      user == ErrUser(f.error_code)
      st0 == Entry(s, pd, fr)
      esp == bring_esp_from_thread_struct(user, not_present, f.esp, thread_esp)
  IN IF exit_if_user_access_in_kernel(fault_addr, user)
     THEN [st0 EXCEPT !.path = "kernel_access"] @@ [esp |-> f.esp, outcome |-> "exit(-1)"]
     ELSE IF write_on_nonwritable_page(s, fault_addr, not_present, write, env.ub_writable)
     THEN [st0 EXCEPT !.path = "write_ro"] @@ [esp |-> f.esp, outcome |-> "exit(-1)"]
     ELSE
       CHOOSE r \in
         {st @@ [esp |-> esp,
                 outcome |-> IF st.path = "ineligible" THEN "exit(-1)"
                             ELSE IF ~st.success THEN kill(f.cs)
                             ELSE "Resolved"] :
            st \in {IF is_user_vaddr(fault_addr) /\ not_present
                    THEN Dispatch(st0, fault_addr, esp, env)
                    ELSE st0}} : TRUE

(* ------------------------------- inputs -------------------------------- *)
\* fault addresses: the last word of every page, the kernel's first address
\* and the lowest address of the stack window
FaultAddrs ==
  {p + PGSIZE - 4 : p \in UPages \cup {PHYS_BASE}} \cup {PHYS_BASE, PHYS_BASE - STACK_LIMIT}
\* TRUE when the handling of the fault reads the trap frame's esp (lines 209, 274)
ReadsEsp(s, error_code, fault_addr) ==
  /\ ErrNotPresent(error_code)
  /\ \/ ~ErrUser(error_code)
     \/ is_user_vaddr(fault_addr) /\ ~ptable_lookup(s, fault_addr).present
\* stack pointers of the trap frame: one push above the fault address, the
\* margin's two sides, the stack's top, and a null stack pointer
EspChoices(s, error_code, fault_addr) ==
  IF ReadsEsp(s, error_code, fault_addr)
  THEN {PtrAdd(fault_addr, 4), PtrAdd(fault_addr, 32), PtrAdd(fault_addr, 33),
        PHYS_BASE, NULL}
  ELSE {PHYS_BASE}
\* the esp saved in the thread at the latest user -> kernel transition
ThreadEspChoices(s, error_code, fault_addr, esp) ==
  IF /\ ReadsEsp(s, error_code, fault_addr) /\ ~ErrUser(error_code)
     /\ esp <= PHYS_BASE - STACK_LIMIT
  THEN {PtrAdd(fault_addr, 32), PHYS_BASE - 4}
  ELSE {PHYS_BASE - 4}
\* the pages a stack-growth walk from fault_addr can visit
WalkPages(fault_addr) ==
  {p \in UPages : pg_round_down(fault_addr) <= p /\ p < PHYS_BASE - PGSIZE}
WalkFailures == {"none", "frame", "install", "insert"}
\* the failures a walk can observe from page p on, with free frames left: a
\* call fails by the environment only where the walk makes it (the page has
\* no entry, a frame is free for frame_alloc, the page is unmapped for
\* install_page and ptable_insert)
RECURSIVE WalkEnvsFrom(_, _, _, _)
WalkEnvsFrom(s, pd, free, p) ==
  IF ~(p < PHYS_BASE - PGSIZE)
  THEN {<<>>}
  ELSE IF s[p].present \/ free = 0
  THEN {(p :> "none") @@ w : w \in WalkEnvsFrom(s, pd, free, p + PGSIZE)}
  ELSE {(p :> "frame") @@ w : w \in WalkEnvsFrom(s, pd, free, p + PGSIZE)}
       \cup {(p :> c) @@ w :
                c \in IF pd[p].present THEN {"none"}
                                       ELSE WalkFailures \ {"frame"},
                w \in WalkEnvsFrom(s, pd, free - 1, p + PGSIZE)}
WalkEnvs(s, pd, fr, fault_addr) ==
  WalkEnvsFrom(s, pd, Cardinality({k \in Frames : ~fr[k].used}),
               pg_round_down(fault_addr))
\* the environment of one fault handling: which collaborator calls fail,
\* and what the reads the code leaves undefined yield.  Choices that the
\* handling cannot observe are fixed.
Envs(s, pd, fr, f, fault_addr, thread_esp) ==
  LET page == ptable_lookup(s, fault_addr)
      not_present == ErrNotPresent(f.error_code)
      user_np == is_user_vaddr(fault_addr) /\ not_present
      null_read == /\ is_user_vaddr(fault_addr) /\ ~not_present
                   /\ ErrWrite(f.error_code) /\ ~page.present
      loads == user_np /\ page.present /\ ~page.loaded
      walks == /\ user_np /\ ~page.present
               /\ StackEligible(fault_addr,
                    bring_esp_from_thread_struct(ErrUser(f.error_code), not_present,
                                                 f.esp, thread_esp))
  IN [ub_writable : IF null_read THEN BOOLEAN ELSE {TRUE},
      ub_swaped : IF loads /\ ~page.swaped_set THEN BOOLEAN ELSE {FALSE},
      load_ok : IF loads THEN BOOLEAN ELSE {TRUE},
      walk : IF walks THEN WalkEnvs(s, pd, fr, fault_addr)
                      ELSE {[p \in WalkPages(fault_addr) |-> "none"]}]

(* ------------------------------- actions ------------------------------- *)
Threads == {1, 2}
\* a thread outside the handler; acquired, inserted, skipped and failed keep
\* what its latest walk did
Idle ==
  [pc |-> "idle", cs |-> 0, trap_addr |-> NULL, fault_addr |-> NULL,
   stack_page_addr |-> NULL, tmp_kpage |-> NULL,
   success |-> FALSE, acquired |-> {}, inserted |-> {}, skipped |-> {}, failed |-> {}]
NoFault ==
  [fault_addr |-> NULL, error_code |-> 0, cs |-> 0, esp_in |-> NULL, thread_esp |-> NULL,
   esp |-> NULL, page |-> NoPage, path |-> "nofault", outcome |-> "none",
   success |-> FALSE, loads |-> <<>>, acquired |-> {}, inserted |-> {}, failed |-> {}, skipped |-> {}]

\* the address space after process load: lazily loaded code and data
\* segments, no frame in use
LoadedSpt ==
  [p \in UPages |->
     IF p = CodePage
     THEN [present |-> TRUE, writable |-> FALSE, loaded |-> FALSE,
           swaped |-> FALSE, swaped_set |-> TRUE, file |-> TRUE]
     ELSE IF p = DataPage
     THEN [present |-> TRUE, writable |-> TRUE, loaded |-> FALSE,
           swaped |-> FALSE, swaped_set |-> TRUE, file |-> TRUE]
     ELSE NoPage]

\* setup_stack() of process load either leaves the stack to the first touch
\* or has the topmost page mapped and registered
Init ==
  /\ page_fault_cnt = 0
  /\ status = "running"
  /\ last = NoFault
  /\ thr = [t \in Threads |-> Idle]
  /\ cpu = [cr2 |-> NULL, intr_off |-> FALSE, cur |-> 0]
  /\ \/ /\ spt = LoadedSpt
        /\ pagedir = [p \in UPages |-> NoMap]
        /\ frames = [k \in Frames |-> FreeFrame]
     \/ /\ spt = [LoadedSpt EXCEPT ![StackTopPage] =
                    [present |-> TRUE, writable |-> TRUE, loaded |-> TRUE,
                     swaped |-> FALSE, swaped_set |-> TRUE, file |-> FALSE]]
        /\ pagedir = [[p \in UPages |-> NoMap] EXCEPT ![StackTopPage] =
                        [present |-> TRUE, kpage |-> 1, writable |-> TRUE]]
        /\ frames = [[k \in Frames |-> FreeFrame] EXCEPT ![1] =
                       [used |-> TRUE, alloc_page |-> StackTopPage, zeroed |-> TRUE]]

\* lines 161-260 for the fault address the handler holds: the rest of the
\* handler, with the trap frame and the collaborators' results as inputs
HandleFault(fault_addr) ==
  \E error_code \in 0..7 :
  \E esp_in \in EspChoices(spt, error_code, fault_addr) :
  \E thread_esp \in ThreadEspChoices(spt, error_code, fault_addr, esp_in) :
    LET f == [error_code |-> error_code, esp |-> esp_in,
              cs |-> IF ErrUser(error_code) THEN SEL_UCSEG ELSE SEL_KCSEG]
    IN \E env \in Envs(spt, pagedir, frames, f, fault_addr, thread_esp) :
         \E r \in {page_fault(spt, pagedir, frames, f, fault_addr, thread_esp, env)} :
            /\ spt' = r.spt
            /\ pagedir' = r.pagedir
            /\ frames' = r.frames
            /\ page_fault_cnt' = page_fault_cnt + 1
            /\ status' = IF r.outcome = "Resolved" THEN "running" ELSE r.outcome
            /\ last' = [fault_addr |-> fault_addr, error_code |-> error_code,
                        cs |-> f.cs, esp_in |-> esp_in, thread_esp |-> thread_esp,
                        esp |-> r.esp, page |-> ptable_lookup(spt, fault_addr),
                        path |-> r.path, outcome |-> r.outcome,
                        success |-> r.success, loads |-> r.loads,
                        acquired |-> r.acquired, inserted |-> r.inserted,
                        failed |-> r.failed, skipped |-> r.skipped]

\* one page fault, handled from trap entry to the handler's end
PageFault ==
  /\ status = "running"
  /\ last = NoFault
  /\ page_fault_cnt < MaxFaults
  /\ \E fault_addr \in FaultAddrs : HandleFault(fault_addr)
  /\ UNCHANGED <<thr, cpu>>

\* vm/frame.c eviction, run when the user pool has no free frame: a loaded
\* page leaves its frame; it goes to swap unless it can be read from its
\* file again
Evict ==
  /\ status = "running"
  /\ last = NoFault
  /\ \A k \in Frames : frames[k].used
  /\ \E upage \in UPages, to_swap \in BOOLEAN :
       /\ spt[upage].present /\ spt[upage].loaded /\ pagedir[upage].present
       /\ to_swap \/ (spt[upage].file /\ ~spt[upage].writable)
       /\ spt' = [spt EXCEPT ![upage].loaded = FALSE,
                             ![upage].swaped = to_swap,
                             ![upage].swaped_set = TRUE]
       /\ frames' = [frames EXCEPT ![pagedir[upage].kpage] = FreeFrame]
       /\ pagedir' = [pagedir EXCEPT ![upage] = NoMap]
       /\ UNCHANGED <<page_fault_cnt, status, last, thr, cpu>>

\* the handler has returned: the trap frame is popped and the faulting
\* instruction runs again
Resume ==
  /\ status = "running"
  /\ last # NoFault
  /\ last' = NoFault
  /\ UNCHANGED <<spt, pagedir, frames, page_fault_cnt, status, thr, cpu>>

Next == PageFault \/ Evict \/ Resume

Spec == Init /\ [][Next]_vars

(* ------------------- stack growth, statement by statement --------------- *)
\* Interrupts are on from line 158, so a thread in the handler can be
\* preempted between any two statements.  Two threads of one process, one
\* SPT, one page directory; each step is one statement of the walk.

\* lines 154-210: trap entry to the first assignment of stack_page_addr, for
\* a fault that reaches the walk
CFault(t) ==
  /\ status = "running" /\ thr[t].pc = "idle"
  /\ page_fault_cnt < MaxFaults
  /\ \E fault_addr \in FaultAddrs, error_code \in 0..7 :
     \E esp_in \in EspChoices(spt, error_code, fault_addr) :
     \E thread_esp \in ThreadEspChoices(spt, error_code, fault_addr, esp_in) :
       /\ ~exit_if_user_access_in_kernel(fault_addr, ErrUser(error_code))
       /\ is_user_vaddr(fault_addr) /\ ErrNotPresent(error_code)
       /\ ~ptable_lookup(spt, fault_addr).present
       /\ StackEligible(fault_addr,
            bring_esp_from_thread_struct(ErrUser(error_code), ErrNotPresent(error_code),
                                         esp_in, thread_esp))
       /\ thr' = [thr EXCEPT ![t] =
                    [Idle EXCEPT !.pc = "loop",
                                 !.cs = IF ErrUser(error_code) THEN SEL_UCSEG ELSE SEL_KCSEG,
                                 !.stack_page_addr = pg_round_down(fault_addr)]]
  /\ page_fault_cnt' = page_fault_cnt + 1
  /\ UNCHANGED <<spt, pagedir, frames, status, last, cpu>>

\* the loop with a registered page passed over without the step to the next
\* page (line 215 left out)
CLoop_SkipStalls(t) ==
  /\ status = "running" /\ thr[t].pc = "loop"
  /\ thr' = [thr EXCEPT ![t] =
       IF ~(thr[t].stack_page_addr < PHYS_BASE - PGSIZE)
       THEN [@ EXCEPT !.pc = "end"]
       ELSE IF ptable_lookup(spt, thr[t].stack_page_addr).present
       THEN [@ EXCEPT !.skipped = @ \cup {thr[t].stack_page_addr}]
       ELSE [@ EXCEPT !.pc = "alloc"]]
  /\ UNCHANGED <<spt, pagedir, frames, page_fault_cnt, status, last, cpu>>

\* lines 211-217: the loop test and the lookup
CLoop(t) ==
  /\ status = "running" /\ thr[t].pc = "loop"
  /\ thr' = [thr EXCEPT ![t] =
       IF ~(thr[t].stack_page_addr < PHYS_BASE - PGSIZE)
       THEN [@ EXCEPT !.pc = "end"]
       ELSE IF ptable_lookup(spt, thr[t].stack_page_addr).present
       THEN [@ EXCEPT !.skipped = @ \cup {thr[t].stack_page_addr},
                      !.stack_page_addr = @ + PGSIZE]
       ELSE [@ EXCEPT !.pc = "alloc"]]
  /\ UNCHANGED <<spt, pagedir, frames, page_fault_cnt, status, last, cpu>>

\* lines 219-220 (and 238 when there is no frame)
CAlloc(t) ==
  /\ status = "running" /\ thr[t].pc = "alloc"
  /\ \E fails \in BOOLEAN :
     \E tmp_kpage \in {frame_alloc(frames, fails)} :
       IF tmp_kpage = NULL
       THEN /\ thr' = [thr EXCEPT ![t].failed = @ \cup {thr[t].stack_page_addr},
                                  ![t].stack_page_addr = @ + PGSIZE,
                                  ![t].pc = "loop"]
            /\ UNCHANGED frames
       ELSE /\ frames' = [frames EXCEPT ![tmp_kpage].used = TRUE,
                                         ![tmp_kpage].zeroed = TRUE]
            /\ thr' = [thr EXCEPT ![t].acquired = @ \cup {thr[t].stack_page_addr},
                                  ![t].tmp_kpage = tmp_kpage,
                                  ![t].pc = "install"]
  /\ UNCHANGED <<spt, pagedir, page_fault_cnt, status, last, cpu>>

\* lines 222-223 (and 238 when the page is not installed)
CInstall(t) ==
  /\ status = "running" /\ thr[t].pc = "install"
  /\ \E fails \in BOOLEAN :
       IF install_page(pagedir, thr[t].stack_page_addr, fails)
       THEN /\ pagedir' = [pagedir EXCEPT ![thr[t].stack_page_addr] =
                             [present |-> TRUE, kpage |-> thr[t].tmp_kpage,
                              writable |-> TRUE]]
            /\ thr' = [thr EXCEPT ![t].success = TRUE, ![t].pc = "insert"]
       ELSE /\ thr' = [thr EXCEPT ![t].success = FALSE,
                                  ![t].failed = @ \cup {thr[t].stack_page_addr},
                                  ![t].stack_page_addr = @ + PGSIZE,
                                  ![t].pc = "loop"]
            /\ UNCHANGED pagedir
  /\ UNCHANGED <<spt, frames, page_fault_cnt, status, last, cpu>>

\* lines 225-238
CInsert(t) ==
  /\ status = "running" /\ thr[t].pc = "insert"
  /\ frames' = [frames EXCEPT ![thr[t].tmp_kpage].alloc_page = thr[t].stack_page_addr]
  /\ \E fails \in BOOLEAN :
       IF ptable_insert(spt, thr[t].stack_page_addr, fails)
       THEN /\ spt' = [spt EXCEPT ![thr[t].stack_page_addr] = s_page]
            /\ thr' = [thr EXCEPT ![t].inserted = @ \cup {thr[t].stack_page_addr},
                                  ![t].stack_page_addr = @ + PGSIZE,
                                  ![t].pc = "loop"]
       ELSE /\ thr' = [thr EXCEPT ![t].success = FALSE,
                                  ![t].failed = @ \cup {thr[t].stack_page_addr},
                                  ![t].stack_page_addr = @ + PGSIZE,
                                  ![t].pc = "loop"]
            /\ UNCHANGED spt
  /\ UNCHANGED <<pagedir, page_fault_cnt, status, last, cpu>>

\* lines 251-260: the handler returns, or kill() ends the process
CEnd(t) ==
  /\ status = "running" /\ thr[t].pc = "end"
  /\ thr' = [thr EXCEPT ![t].pc = "idle"]
  /\ status' = IF thr[t].success THEN "running" ELSE kill(thr[t].cs)
  /\ UNCHANGED <<spt, pagedir, frames, page_fault_cnt, last, cpu>>

NextConc ==
  \E t \in Threads :
    CFault(t) \/ CLoop(t) \/ CAlloc(t) \/ CInstall(t) \/ CInsert(t) \/ CEnd(t)

SpecConc == Init /\ [][NextConc]_vars

\* the handler of one thread alone, statement by statement; once in the
\* handler the thread is scheduled until it leaves it
InHandler(t) == CLoop(t) \/ CAlloc(t) \/ CInstall(t) \/ CInsert(t) \/ CEnd(t)

NextWalk ==
  CFault(1) \/ CLoop(1) \/ CAlloc(1) \/ CInstall(1) \/ CInsert(1) \/ CEnd(1)

SpecWalk == Init /\ [][NextWalk]_vars /\ WF_vars(InHandler(1))

(* --------------- the handler's entry, statement by statement ------------ *)
\* one CPU: while a thread has interrupts off no other thread is scheduled.
\* A step is taken once the record of the latest fault has been cleared.
Runs(t) == last = NoFault /\ (~cpu.intr_off \/ cpu.cur = t)

\* the addresses whose access traps here: one in a lazily loaded page, one
\* in the stack page below the topmost, and the kernel's first address
TrapAddrs == {CodePage + PGSIZE - 4, StackTopPage - 4, PHYS_BASE}

\* the gate of the page fault registered with interrupts left on
TTrap_IntrOn(t) ==
  /\ status = "running" /\ thr[t].pc = "idle" /\ Runs(t)
  /\ page_fault_cnt + Cardinality({u \in Threads : thr[u].pc # "idle"}) < MaxFaults
  /\ \E addr \in TrapAddrs :
       /\ cpu' = [cr2 |-> addr, intr_off |-> FALSE, cur |-> 0]
       /\ thr' = [thr EXCEPT ![t] = [Idle EXCEPT !.pc = "cr2", !.trap_addr = addr]]
  /\ UNCHANGED <<spt, pagedir, frames, page_fault_cnt, status, last>>

\* an access of thread t to addr faults: the CPU loads CR2 with addr and
\* enters page_fault() through the gate exception_init() registered with
\* INTR_OFF (line 74), so with interrupts off
TTrap(t) ==
  /\ status = "running" /\ thr[t].pc = "idle" /\ Runs(t)
  /\ page_fault_cnt + Cardinality({u \in Threads : thr[u].pc # "idle"}) < MaxFaults
  /\ \E addr \in TrapAddrs :
       /\ cpu' = [cr2 |-> addr, intr_off |-> TRUE, cur |-> t]
       /\ thr' = [thr EXCEPT ![t] = [Idle EXCEPT !.pc = "cr2", !.trap_addr = addr]]
  /\ UNCHANGED <<spt, pagedir, frames, page_fault_cnt, status, last>>

\* line 154: asm ("movl %%cr2, %0" : "=r" (fault_addr))
TReadCr2(t) ==
  /\ status = "running" /\ thr[t].pc = "cr2" /\ Runs(t)
  /\ thr' = [thr EXCEPT ![t].fault_addr = cpu.cr2, ![t].pc = "enable"]
  /\ UNCHANGED <<spt, pagedir, frames, page_fault_cnt, status, last, cpu>>

\* line 158: intr_enable()
TIntrEnable(t) ==
  /\ status = "running" /\ thr[t].pc = "enable" /\ Runs(t)
  /\ cpu' = [cpu EXCEPT !.intr_off = FALSE, !.cur = 0]
  /\ thr' = [thr EXCEPT ![t].pc = "handle"]
  /\ UNCHANGED <<spt, pagedir, frames, page_fault_cnt, status, last>>

\* lines 161-260, from the local fault_addr
THandle(t) ==
  /\ status = "running" /\ thr[t].pc = "handle" /\ Runs(t)
  /\ HandleFault(thr[t].fault_addr)
  /\ thr' = [thr EXCEPT ![t] = Idle]
  /\ UNCHANGED cpu

NextTrap ==
  \/ \E t \in Threads : TTrap(t) \/ TReadCr2(t) \/ TIntrEnable(t) \/ THandle(t)
  \/ Evict
  \/ Resume

SpecTrap == Init /\ [][NextTrap]_vars

(* ------------------------------- claims -------------------------------- *)
\* the latest step handled a fault; its classification
Faulted == last.path # "nofault"
FaultNotPresent == ErrNotPresent(last.error_code)
FaultWrite == ErrWrite(last.error_code)
FaultUser == ErrUser(last.error_code)
FaultPage == pg_round_down(last.fault_addr)
\* the handler was left through kill()
Killed == last.outcome \in {"thread_exit", "panic"}

\* C1: a fault of a user context on a kernel address ends in exit(-1) and
\* is not resolved, whatever its cause bit and its access bit
C1_UserFaultOnKernelAddressExits ==
  (Faulted /\ is_kernel_vaddr(last.fault_addr) /\ FaultUser)
    => (last.outcome = "exit(-1)" /\ status = "exit(-1)")

C1_Witness ==
  /\ Faulted /\ last.fault_addr = PHYS_BASE /\ FaultUser
  /\ ~FaultNotPresent /\ FaultWrite
  /\ status = "exit(-1)"

\* C2: a write fault on a present user page whose entry is not writable ends
\* in exit(-1), in user and in kernel context
C2_WriteOnReadOnlyPageExits ==
  (/\ Faulted /\ is_user_vaddr(last.fault_addr) /\ ~FaultNotPresent /\ FaultWrite
   /\ last.page.present /\ ~last.page.writable)
    => (last.outcome = "exit(-1)" /\ status = "exit(-1)")

C2_Witness ==
  /\ Faulted /\ FaultPage = CodePage /\ ~FaultNotPresent /\ FaultWrite /\ ~FaultUser
  /\ last.page.present /\ last.page.loaded /\ ~last.page.writable
  /\ status = "exit(-1)"

\* C3: a not-present fault at stack_top - 4 with esp at stack_top and no
\* entry for the topmost page, with no collaborator failing, is resolved
\* with one new, resident entry and a writable mapping of that page
C3_TopPageFaultGrowsStack ==
  (/\ Faulted /\ last.fault_addr = PHYS_BASE - 4 /\ last.esp_in = PHYS_BASE
   /\ FaultNotPresent /\ FaultUser /\ ~last.page.present /\ last.failed = {})
    => (/\ last.outcome = "Resolved"
        /\ last.inserted = {StackTopPage}
        /\ spt[StackTopPage].present /\ spt[StackTopPage].loaded
        /\ pagedir[StackTopPage].present /\ pagedir[StackTopPage].writable)

\* C4: a stack-growth walk in which a call failed for some page ends in a
\* killed process, whatever the other pages of the walk did
C4_FailedWalkIsKilled ==
  (Faulted /\ last.path = "grow" /\ last.failed # {}) => last.outcome # "Resolved"

\* C5: a not-present fault on a user address without entry, more than 32
\* bytes below the stack pointer or below PHYS_BASE - STACK_LIMIT, ends in
\* exit(-1) with no frame acquired and no entry made; the address 32 bytes
\* below the stack pointer and the address PHYS_BASE - STACK_LIMIT pass
C5_StackEligibilityRule ==
  (Faulted /\ is_user_vaddr(last.fault_addr) /\ FaultNotPresent /\ ~last.page.present)
    => /\ (\/ last.fault_addr < PtrSub(last.esp, 32)
           \/ last.fault_addr < PHYS_BASE - STACK_LIMIT)
            => (/\ last.outcome = "exit(-1)" /\ status = "exit(-1)"
                /\ last.acquired = {} /\ last.inserted = {})
       /\ (/\ last.fault_addr = PtrSub(last.esp, 32)
           /\ last.fault_addr >= PHYS_BASE - STACK_LIMIT)
            => (last.path = "grow" /\ last.outcome # "exit(-1)")
       /\ (/\ last.fault_addr = PHYS_BASE - STACK_LIMIT
           /\ last.fault_addr >= PtrSub(last.esp, 32))
            => (last.path = "grow" /\ last.outcome # "exit(-1)")

C5_Witness ==
  /\ Faulted /\ FaultNotPresent /\ ~last.page.present
  /\ last.fault_addr >= PHYS_BASE - STACK_LIMIT
  /\ last.fault_addr = last.esp - 33
  /\ status = "exit(-1)" /\ last.acquired = {}

\* C6 as claimed: a second fault on a page stack growth has made allocates
\* nothing, makes no entry, and is resolved through the entry
C6_SecondFaultResolves ==
  (Faulted /\ last.page = s_page)
    => (last.acquired = {} /\ last.inserted = {} /\ last.outcome = "Resolved")

\* C6 as amended: a second fault on a page stack growth has made allocates
\* nothing and makes no entry; it is not resolved but left through kill()
C6_SecondFaultAllocatesNothing ==
  (Faulted /\ last.page = s_page)
    => (last.acquired = {} /\ last.inserted = {} /\ last.loads = <<>> /\ Killed)

C6_Witness ==
  /\ Faulted /\ last.page = s_page /\ FaultNotPresent
  /\ FaultPage # StackTopPage
  /\ page_fault_cnt = 2 /\ status = "thread_exit"

\* C7: a not-present fault on a file-backed entry that is not loaded, whose
\* loader reports success: the file loader ran, once; the fault is resolved;
\* the entry is loaded; the page is mapped with the entry's writable flag
C7_FileLoadResolves ==
  (/\ Faulted /\ is_user_vaddr(last.fault_addr) /\ FaultNotPresent
   /\ last.page.present /\ ~last.page.loaded /\ last.page.file /\ ~last.page.swaped
   /\ last.loads # <<>> /\ \A i \in 1..Len(last.loads) : last.loads[i].ok)
    => (/\ last.loads = <<[loader |-> "file", ok |-> TRUE]>>
        /\ last.outcome = "Resolved"
        /\ spt[FaultPage].loaded
        /\ last.acquired = {FaultPage}
        /\ pagedir[FaultPage].present
        /\ frames[pagedir[FaultPage].kpage].used
        /\ pagedir[FaultPage].writable = last.page.writable)

C7_Witness ==
  /\ Faulted /\ FaultPage = CodePage /\ FaultNotPresent
  /\ ~last.page.loaded /\ last.page.file
  /\ last.loads = <<[loader |-> "file", ok |-> TRUE]>>
  /\ spt[CodePage].loaded /\ pagedir[CodePage].present /\ ~pagedir[CodePage].writable

\* C8: two threads on one SPT, walks in any interleaving: no page gets two
\* frames or two entries, and a walk in which no call failed and that found
\* pages present ends with success
C8_NoDoubleAllocation ==
  /\ \A p \in UPages : Cardinality({t \in Threads : p \in thr[t].acquired}) <= 1
  /\ \A p \in UPages : Cardinality({t \in Threads : p \in thr[t].inserted}) <= 1
  /\ \A t \in Threads :
       (thr[t].pc = "end" /\ thr[t].failed = {} /\ thr[t].skipped # {})
         => thr[t].success

\* C9 as claimed: every fault that is not resolved is left through kill():
\* the user code segment ends the process, the kernel code segment panics
C9_UnresolvedGoesToKill ==
  (Faulted /\ last.outcome # "Resolved")
    => last.outcome = (IF last.cs = SEL_UCSEG THEN "thread_exit" ELSE "panic")

\* C9 as amended: no fault that is not resolved resumes; a fault that
\* system_exit(-1) did not end before and that has no success at the
\* handler's end is left through kill(): the user code segment ends the
\* process, the kernel code segment panics
C9_UnresolvedNeverResumes ==
  Faulted =>
    /\ last.outcome # "Resolved" => (status # "running" /\ status = last.outcome)
    /\ last.path \in {"kernel_access", "write_ro", "ineligible"}
         => last.outcome = "exit(-1)"
    /\ (last.path \notin {"kernel_access", "write_ro", "ineligible"} /\ ~last.success)
         => last.outcome = (IF last.cs = SEL_UCSEG THEN "thread_exit" ELSE "panic")

C9_Witness ==
  /\ Faulted /\ last.cs = SEL_KCSEG /\ ~last.success
  /\ last.path = "grow" /\ status = "panic"

\* C10: when the handler returns to the faulting context, the page of the
\* fault address has a loaded entry and a mapping
C10_ResolvedPageIsMapped ==
  (Faulted /\ last.outcome = "Resolved")
    => (/\ spt[FaultPage].present /\ spt[FaultPage].loaded
        /\ pagedir[FaultPage].present)

\* a step of the handler: the fault record is written
FaultStep == last = NoFault /\ last' # NoFault

\* C11: a not-present fault on a user page whose entry is found and loaded
\* is never resolved: no loader is called, no frame is allocated, the
\* supplemental page table stays as it was, and the handler ends in kill()
C11_ResidentEntryIsKilled ==
  [][(/\ FaultStep
      /\ is_user_vaddr(last'.fault_addr) /\ ErrNotPresent(last'.error_code)
      /\ last'.page.present /\ last'.page.loaded)
     => (/\ last'.loads = <<>>
         /\ last'.acquired = {}
         /\ frames' = frames
         /\ spt' = spt
         /\ last'.outcome = kill(last'.cs))]_vars

C11_Witness ==
  /\ Faulted /\ is_user_vaddr(last.fault_addr) /\ FaultNotPresent
  /\ last.page.present /\ last.page.loaded
  /\ last.path = "resident" /\ Killed

\* C12: a not-present fault on a user page whose entry is found and not
\* loaded calls one loader once (the swap loader for a swapped entry, the
\* file loader otherwise); the fault is resolved exactly when the loader
\* reports success, and a failed load ends in kill() with no second call
\* and no stack growth
C12_OneLoaderDecides ==
  (/\ Faulted /\ is_user_vaddr(last.fault_addr) /\ FaultNotPresent
   /\ last.page.present /\ ~last.page.loaded)
    => (/\ Len(last.loads) = 1
        /\ last.page.swaped_set
              => last.loads[1].loader = (IF last.page.swaped THEN "swap" ELSE "file")
        /\ (last.outcome = "Resolved") <=> last.loads[1].ok
        /\ ~last.loads[1].ok
              => (/\ Killed /\ last.path = "load"
                  /\ last.inserted = {} /\ last.skipped = {} /\ last.failed = {}))

C12_Witness ==
  /\ Faulted /\ is_user_vaddr(last.fault_addr) /\ FaultNotPresent
  /\ last.page.present /\ ~last.page.loaded /\ last.page.swaped
  /\ last.loads = <<[loader |-> "swap", ok |-> FALSE]>>
  /\ Killed

\* the user-stack region is the STACK_LIMIT bytes below PHYS_BASE.  An esp
\* at PHYS_BASE (the empty stack) counts as inside; the region's lowest
\* address is counted on neither side, so that the rule is judged only
\* where the region's reading is beyond doubt
InsideUserStack(esp) == PHYS_BASE - STACK_LIMIT < esp /\ esp <= PHYS_BASE
OutsideUserStack(esp) == esp < PHYS_BASE - STACK_LIMIT \/ esp > PHYS_BASE

\* C13: the handler replaces the trap frame's esp by the esp saved in the
\* thread exactly when the fault is in kernel context, on a page that is not
\* present, and the trap frame's esp is outside the user-stack region;
\* in every other case esp stays as it came
C13_EspRecoveryRule ==
  Faulted =>
    /\ (~FaultUser /\ FaultNotPresent /\ OutsideUserStack(last.esp_in))
          => last.esp = last.thread_esp
    /\ (FaultUser \/ ~FaultNotPresent \/ InsideUserStack(last.esp_in))
          => last.esp = last.esp_in

\* C14: the address every decision of the handler uses is the one CR2 held
\* at the trap: CR2 is read with interrupts off, interrupts come back on only
\* after the read, and the local copy is never written again, so a later
\* fault that loads CR2 does not change the address being handled
C14_Inv ==
  \A t \in Threads :
    /\ thr[t].pc \in {"cr2", "enable"} => (cpu.intr_off /\ cpu.cur = t)
    /\ thr[t].pc = "cr2" => cpu.cr2 = thr[t].trap_addr
    /\ thr[t].pc \in {"enable", "handle"} => thr[t].fault_addr = thr[t].trap_addr
C14_Step ==
  \A t \in Threads :
    /\ (thr[t].pc \in {"enable", "handle"} /\ thr'[t].pc \in {"enable", "handle"})
          => thr'[t].fault_addr = thr[t].fault_addr
    /\ (thr[t].pc = "handle" /\ thr'[t].pc = "idle")
          => last'.fault_addr = thr[t].trap_addr
C14_FaultAddressIsTrapAddress == []C14_Inv /\ [][C14_Step]_vars

C14_Witness ==
  /\ Faulted /\ cpu.cr2 # last.fault_addr
  /\ \E u \in Threads : thr[u].pc = "handle" /\ thr[u].trap_addr = cpu.cr2

\* C15: a stack-growth walk starts at the page of the fault address and ends
\* at the first page it finds registered, or at the ceiling: it makes entries
\* only for pages from the fault page up to that first registered page,
\* never for a page beyond a registered page it has reached, and never for a
\* page more than STACK_LIMIT below PHYS_BASE
C15_WalkStopsAtMappedPage ==
  (Faulted /\ last.path = "grow")
    => (/\ \A p \in last.inserted :
             /\ FaultPage <= p
             /\ p >= pg_round_down(PHYS_BASE - STACK_LIMIT)
             /\ \A q \in last.skipped : p < q)

\* C16: every entry made by stack growth (the entries whose swaped was never
\* set) is loaded and writable and has a writable mapping to a frame that
\* was taken zero-filled and whose alloc_page is that entry's page; no frame
\* is mapped at two registered pages, and a walk makes no entry for a page
\* it found registered
C16_GrownEntriesAreBacked ==
  /\ \A p \in UPages :
       (spt[p].present /\ ~spt[p].swaped_set)
         => (/\ spt[p].loaded /\ spt[p].writable
             /\ pagedir[p].present /\ pagedir[p].writable
             /\ frames[pagedir[p].kpage].used
             /\ frames[pagedir[p].kpage].zeroed
             /\ frames[pagedir[p].kpage].alloc_page = p)
  /\ \A p, q \in UPages :
       (/\ p # q /\ spt[p].present /\ spt[q].present
        /\ pagedir[p].present /\ pagedir[q].present)
         => pagedir[p].kpage # pagedir[q].kpage
  /\ last.inserted \cap last.skipped = {}

C16_Witness ==
  /\ Faulted /\ last.path = "grow" /\ last.inserted # {}
  /\ \A p \in last.inserted : spt[p].present /\ ~spt[p].swaped_set
  /\ \E p \in UPages : spt[p].present /\ spt[p].swaped_set /\ pagedir[p].present

\* C17: when install_page or ptable_insert fails for a page of the walk, the
\* frame taken for the page and the entry built for it are released, so
\* after the fault every frame in use is mapped at a page whose entry is in
\* the supplemental page table
C17_FailedStepReleasesFrame ==
  (Faulted /\ last.path = "grow")
    => \A k \in Frames :
         frames[k].used
           => \E p \in UPages :
                /\ pagedir[p].present /\ pagedir[p].kpage = k
                /\ spt[p].present

\* C18: a fault that ends in system_exit(-1) (user access to a kernel
\* address, write to a present read-only page, address not eligible for
\* stack growth) leaves the supplemental page table, the mappings and the
\* frames as they were before the fault
C18_IllegalAccessChangesNothing ==
  [][(FaultStep /\ last'.outcome = "exit(-1)")
     => (spt' = spt /\ pagedir' = pagedir /\ frames' = frames)]_vars

C18_Witness ==
  /\ Faulted /\ last.outcome = "exit(-1)" /\ last.path = "ineligible"
  /\ \E k \in Frames : frames[k].used
  /\ \E p \in UPages : spt[p] = s_page

\* C19: in every reachable state every user page that has a mapping has an
\* entry in the supplemental page table, also after a walk whose
\* ptable_insert failed; so the lookup of the write-protection check
\* (user address, page present, write) never yields no entry
C19_MappedPageHasEntry ==
  \A p \in UPages : pagedir[p].present => spt[p].present

\* C20: the walk ends: every iteration, also one that passes over a
\* registered page or fails, moves the page address up by one page, the walk
\* visits at most STACK_LIMIT / PGSIZE pages, and so every handling that
\* entered the walk leaves the handler with one outcome (the instruction is
\* resumed, the process is ended, or the kernel panics)
WalkPcs == {"loop", "alloc", "install", "insert"}
C20_Advance ==
  \A t \in Threads :
    (thr'[t] # thr[t] /\ thr[t].pc \in WalkPcs)
      => thr'[t].stack_page_addr =
           (IF thr'[t].pc = "loop" THEN thr[t].stack_page_addr + PGSIZE
                                   ELSE thr[t].stack_page_addr)
C20_Bounded ==
  \A t \in Threads :
    /\ Cardinality(thr[t].skipped \cup thr[t].failed \cup thr[t].inserted)
         <= STACK_LIMIT \div PGSIZE
    /\ thr[t].pc \in WalkPcs
         => (/\ PHYS_BASE - STACK_LIMIT <= thr[t].stack_page_addr
             /\ thr[t].stack_page_addr <= PHYS_BASE - PGSIZE)
C20_Terminates ==
  \A t \in Threads :
    (thr[t].pc # "idle")
      ~> (thr[t].pc = "idle" /\ status \in {"running", "thread_exit", "panic"})
C20_WalkTerminates == [][C20_Advance]_vars /\ []C20_Bounded /\ C20_Terminates

C20_Witness ==
  /\ thr[1].pc = "end"
  /\ thr[1].skipped # {} /\ thr[1].failed # {} /\ thr[1].inserted # {}

====
